---- MODULE Spec2Model ----
(***************************************************************************)
(* Model of server.py: the credential helper _extract_api_key and the two  *)
(* tools research_company_with_tavily and pinecone_search.                 *)
(* Python strings are sequences of one-character strings.                  *)
(***************************************************************************)
EXTENDS Integers, Sequences, FiniteSets, TLC

VARIABLES headers, apiKey, kpc,
          nresp, nout, npc,
          env, pc, tool, args, reqs, indexCalls, out

vars == <<headers, apiKey, kpc, nresp, nout, npc,
          env, pc, tool, args, reqs, indexCalls, out>>

keyVars == <<headers, apiKey, kpc>>
normVars == <<nresp, nout, npc>>
toolVars == <<env, pc, tool, args, reqs, indexCalls, out>>

\* ---------------------------------------------------------------- bounds
MaxLen == 2
MaxHits == 2
MaxFaults == 1

\* ---------------------------------------------------------------- strings
Strings(alphabet, n) == UNION {[1..k -> alphabet] : k \in 0..n}

\* Python None, kept apart from every string of the model
None == <<"<None>">>

IsSpace(c) == c = " "

RECURSIVE LStrip(_)
LStrip(s) == IF s # <<>> /\ IsSpace(Head(s)) THEN LStrip(Tail(s)) ELSE s

RECURSIVE RStrip(_)
RStrip(s) ==
    IF s # <<>> /\ IsSpace(s[Len(s)]) THEN RStrip(SubSeq(s, 1, Len(s) - 1)) ELSE s

\* str.strip()
Strip(s) == RStrip(LStrip(s))

LowerChar(c) ==
    CASE c = "B" -> "b"
      [] c = "E" -> "e"
      [] c = "A" -> "a"
      [] c = "R" -> "r"
      [] OTHER -> c

\* str.lower()
Lower(s) == [k \in 1..Len(s) |-> LowerChar(s[k])]

\* str.startswith(p)
StartsWith(s, p) == Len(s) >= Len(p) /\ SubSeq(s, 1, Len(p)) = p

\* Python truthiness of an Optional[str]
Truthy(v) == v # None /\ v # <<>>

\* Python "a or b"
PyOr(a, b) == IF Truthy(a) THEN a ELSE b

BearerPrefix == <<"b", "e", "a", "r", "e", "r", " ">>

\* ------------------------------------------------ _extract_api_key
\* headers is the dict given by get_http_headers(): the three names the
\* function looks up, each mapped to its value or to None when absent.
HeaderDict(lo, mixed, auth) == [lower |-> lo, mixed |-> mixed, authorization |-> auth]

DictIsEmpty(hd) == hd.lower = None /\ hd.mixed = None /\ hd.authorization = None

\* headers.get("authorization", "")
GetAuth(hd) == IF hd.authorization = None THEN <<>> ELSE hd.authorization

ExtractApiKeyBearerFirst(hd) ==
    IF DictIsEmpty(hd) THEN None
    ELSE IF StartsWith(Lower(GetAuth(hd)), BearerPrefix)
         THEN Strip(SubSeq(GetAuth(hd), 8, Len(GetAuth(hd))))
         ELSE LET h == PyOr(hd.lower, hd.mixed)
              IN  IF Truthy(h) THEN Strip(h) ELSE None

ExtractApiKey(hd) ==
    IF DictIsEmpty(hd) THEN None
    ELSE LET h == PyOr(hd.lower, hd.mixed)
         IN  IF Truthy(h) THEN Strip(h)
             ELSE IF StartsWith(Lower(GetAuth(hd)), BearerPrefix)
                  THEN Strip(SubSeq(GetAuth(hd), 8, Len(GetAuth(hd))))
                  ELSE None

KeyValues == Strings({" ", "k"}, MaxLen) \cup {None}

AuthPrefixes ==
    { BearerPrefix,
      <<"B", "e", "a", "r", "e", "r", " ">>,
      <<"B", "E", "A", "R", "E", "R", " ">>,
      <<"b", "e", "a", "r", "e", "r">>,
      <<"b", "a", "s", "i", "c", " ">> }

AuthValues ==
    {p \o t : p \in AuthPrefixes, t \in Strings({" ", "t"}, MaxLen)} \cup {None, <<>>}


\* ------------------------------------------------ backend responses
\* A value returned by the Pinecone SDK, by its Python type at each level:
\*   outer    type of the result itself ("None", "dict", "obj")
\*   inner    what is under the key / attribute "result"
\*   hitsKind what is under the key / attribute "hits" of that
\*   hits     the hit list when hitsKind = "list"
\* A hit: kind is its type, fields what is under "fields", text what is
\* under fields["text"], extra whether the hit carries a field outside the
\* requested list, from the namespace the backend took it from.
AllowedFields == {"text", "Tag", "Type", "RecordId", "UserId", "TimeStamp"}

Texts == {"a", "b"}

HitsOf(nsp) ==
    [kind : {"dict", "obj"}, fields : {"absent", "notmap"}, text : {"absent"},
     extra : {FALSE}, from : {nsp}]
    \cup
    [kind : {"dict", "obj"}, fields : {"map"}, text : {"absent", "nonstr"} \cup Texts,
     extra : BOOLEAN, from : {nsp}]

\* names of the entries of hit.fields as the backend sent them
FieldNames(h) ==
    IF h.fields # "map" THEN {}
    ELSE (IF h.text = "absent" THEN {} ELSE {"text"})
         \cup (IF h.extra THEN {"internal"} ELSE {})

HitLists(nsp, n) == UNION {[1..k -> HitsOf(nsp)] : k \in 0..n}

Response(o, i, hk, hs) == [outer |-> o, inner |-> i, hitsKind |-> hk, hits |-> hs]

NoResp == Response("n/a", "absent", "absent", <<>>)

Responses(nsp, n) ==
    {Response(o, i, "list", hs) :
        o \in {"dict", "obj"}, i \in {"dict", "obj"}, hs \in HitLists(nsp, n)}
    \cup
    {Response(o, i, hk, <<>>) :
        o \in {"dict", "obj"}, i \in {"dict", "obj"}, hk \in {"absent", "None"}}
    \cup
    {Response(o, i, "absent", <<>>) : o \in {"dict", "obj"}, i \in {"absent", "None"}}
    \cup
    {Response("None", "absent", "absent", <<>>)}

\* ------------------------------------------------ normalization
\* lines 197-201: [exc |-> an exception was raised, hits |-> the list found]
LocateHits(r) ==
    IF r.outer = "dict"
    THEN \* result.get("result", {}).get("hits", [])
         CASE r.inner = "absent" -> [exc |-> FALSE, hits |-> <<>>]
           [] r.inner \in {"None", "obj"} -> [exc |-> TRUE, hits |-> <<>>]
           [] OTHER ->
                CASE r.hitsKind = "absent" -> [exc |-> FALSE, hits |-> <<>>]
                  [] r.hitsKind = "None" -> [exc |-> TRUE, hits |-> <<>>]
                  [] OTHER -> [exc |-> FALSE, hits |-> r.hits]
    ELSE \* getattr(getattr(result, "result", {}), "hits", [])
         IF r.outer = "obj" /\ r.inner = "obj"
         THEN CASE r.hitsKind = "absent" -> [exc |-> FALSE, hits |-> <<>>]
                [] r.hitsKind = "None" -> [exc |-> TRUE, hits |-> <<>>]
                [] OTHER -> [exc |-> FALSE, hits |-> r.hits]
         ELSE [exc |-> FALSE, hits |-> <<>>]

\* lines 202-206: the for loop, stopped by the first exception
RECURSIVE CollectReversed(_, _)
CollectReversed(hs, acc) ==
    IF hs = <<>> THEN [exc |-> FALSE, matches |-> acc]
    ELSE LET h == Head(hs)
         IN  IF h.fields = "notmap" THEN [exc |-> TRUE, matches |-> acc]
             ELSE IF h.fields = "map" /\ h.text \in Texts
                  THEN CollectReversed(Tail(hs), <<h.text>> \o acc)
                  ELSE CollectReversed(Tail(hs), acc)

RECURSIVE Collect(_, _)
Collect(hs, acc) ==
    IF hs = <<>> THEN [exc |-> FALSE, matches |-> acc]
    ELSE LET h == Head(hs)
         IN  IF h.fields = "notmap" THEN [exc |-> TRUE, matches |-> acc]
             ELSE IF h.fields = "map" /\ h.text \in Texts
                  THEN Collect(Tail(hs), Append(acc, h.text))
                  ELSE Collect(Tail(hs), acc)

\* lines 194-206, the body of the try
NormalizeBody(r) ==
    LET loc == LocateHits(r)
    IN  IF loc.exc THEN [exc |-> TRUE, matches |-> <<>>] ELSE Collect(loc.hits, <<>>)

\* ------------------------------------------------ what a tool hands back
\* how    "returned" or "raised" (an exception leaves the tool)
\* exc    the exception type when raised
\* keys   the top-level keys of the returned dict
\* error  the value under "error" ("" when there is none) and errorForm its
\*        type: "absent" or "str" (the code stores a plain string there)
Raised(e) ==
    [how |-> "raised", exc |-> e, keys |-> {}, success |-> FALSE, error |-> "", errorForm |-> "absent",
     message |-> "", matches |-> <<>>, raw |-> NoResp]

\* lines 187-191
PineconeFailed(e) ==
    [how |-> "returned", exc |-> "", keys |-> {"success", "error", "message"},
     success |-> FALSE, error |-> "pinecone_search_failed", errorForm |-> "str", message |-> e,
     matches |-> <<>>, raw |-> NoResp]

PineconeReturnUncaught(r) ==
    LET b == NormalizeBody(r)
    IN  IF b.exc THEN Raised("AttributeError")
        ELSE [how |-> "returned", exc |-> "", keys |-> {"success", "matches", "raw"},
              success |-> TRUE, error |-> "", errorForm |-> "absent", message |-> "",
              matches |-> b.matches, raw |-> r]

\* lines 193-215: normalization (exceptions swallowed) and the success return
PineconeReturn(r) ==
    LET b == NormalizeBody(r)
    IN  [how |-> "returned", exc |-> "", keys |-> {"success", "matches", "raw"},
         success |-> TRUE, error |-> "", errorForm |-> "absent", message |-> "",
         matches |-> b.matches, raw |-> r]

\* line 109: Tavily's JSON is returned as it came
TavilyReturn ==
    [how |-> "returned", exc |-> "", keys |-> {"query", "answer", "results"},
     success |-> FALSE, error |-> "", errorForm |-> "absent", message |-> "", matches |-> <<>>, raw |-> NoResp]

NoOut ==
    [how |-> "none", exc |-> "", keys |-> {}, success |-> FALSE, error |-> "", errorForm |-> "absent",
     message |-> "", matches |-> <<>>, raw |-> NoResp]


\* ------------------------------------------------ process and backends
Invocations == {"inv1", "inv2"}

\* os.environ as the tools read it (TRUE: the variable is set and non-empty)
\* and the installed Pinecone SDK: whether it can be imported, whether
\* Pinecone.Index accepts host=, and the search methods a namespace has.
SdkMethods == {"snake", "camel", "both", "nomethod"}

AllEnvs ==
    [tavilyKey : BOOLEAN, pineconeKey : BOOLEAN, indexName : BOOLEAN,
     indexHost : BOOLEAN, sdkImportable : BOOLEAN, acceptsHost : BOOLEAN,
     methods : SdkMethods]

B2N(b) == IF b THEN 0 ELSE 1

\* how far a process is from the fully configured one
Faults(e) ==
    B2N(e.tavilyKey) + B2N(e.pineconeKey) + B2N(e.indexName) + B2N(e.indexHost)
    + B2N(e.sdkImportable) + B2N(e.acceptsHost) + B2N(e.methods = "snake")

Envs == {e \in AllEnvs : Faults(e) <= MaxFaults}

UserIds == Strings({" ", "u"}, MaxLen)
Queries == {<<>>, <<" ">>, <<"q">>}
CompanyNames == {<<>>, <<" ">>, <<"c">>}
WebsiteUrls == {<<>>, <<" ">>, <<"w">>}

NoArgs == [UserId |-> <<>>, query |-> <<>>, company_name |-> <<>>, website_url |-> <<>>]

\* "not s or not s.strip()"
IsBlank(s) == s = <<>> \/ Strip(s) = <<>>

\* lines 131-146: the exception the checks raise, "" when all pass
PineconeValidate(e, uid, q) ==
    CASE ~e.pineconeKey -> "ValueError"
      [] ~e.indexName -> "ValueError"
      [] IsBlank(uid) -> "ValueError"
      [] IsBlank(q) -> "ValueError"
      [] ~e.sdkImportable -> "RuntimeError"
      [] OTHER -> ""

\* lines 153-157: number of pc.Index(...) constructions
IndexConstructions(e) == IF e.indexHost /\ ~e.acceptsHost THEN 2 ELSE 1

NamespaceArgRaw(uid) == uid

\* line 159: index.namespace(UserId.strip())
NamespaceArg(uid) == Strip(uid)

SearchMethodsNoElif(m) ==
    CASE m = "snake" -> <<"search_records">>
      [] m = "camel" -> <<"searchRecords">>
      [] m = "both" -> <<"search_records", "searchRecords">>
      [] OTHER -> <<>>

\* lines 171-179: the search methods _search_sync calls, in order
SearchMethods(m) ==
    CASE m \in {"snake", "both"} -> <<"search_records">>
      [] m = "camel" -> <<"searchRecords">>
      [] OTHER -> <<>>

PineconeRequest(uid, q, meth) ==
    [tool |-> "pinecone", method |-> meth, ns |-> NamespaceArg(uid), text |-> q,
     fields |-> AllowedFields, topK |-> 5, site |-> <<>>]

\* lines 79-100: the POST to Tavily
TavilyRequest(cn, url) ==
    [tool |-> "tavily", method |-> "POST", ns |-> <<>>, text |-> cn,
     fields |-> {}, topK |-> 5, site |-> url]

\* responses the vector backend may give to a query in namespace nsp
BackendResponses(nsp) ==
    {r \in Responses(nsp, 1) :
        /\ r.outer = r.inner \/ r.outer = "None"
        /\ r.hitsKind # "None"
        /\ \A k \in 1..Len(r.hits) :
              r.hits[k].kind = r.outer /\ r.hits[k].fields = "map" /\ r.hits[k].text # "b"}

TavilyOutcomes == {"2xx", "non2xx", "transport", "badjson"}

\* lines 99-109 after the response arrived
TavilyFinish(status) ==
    CASE status = "2xx" -> TavilyReturn
      [] status = "non2xx" -> Raised("HTTPStatusError")
      [] status = "transport" -> Raised("ConnectError")
      [] OTHER -> Raised("JSONDecodeError")

\* ------------------------------------------------ tool invocations
ToolInit ==
    /\ env \in Envs
    /\ pc = [i \in Invocations |-> "idle"]
    /\ tool = [i \in Invocations |-> "none"]
    /\ args = [i \in Invocations |-> NoArgs]
    /\ reqs = [i \in Invocations |-> <<>>]
    /\ indexCalls = [i \in Invocations |-> 0]
    /\ out = [i \in Invocations |-> NoOut]

ToolIdle ==
    /\ env = [tavilyKey |-> TRUE, pineconeKey |-> TRUE, indexName |-> TRUE,
              indexHost |-> TRUE, sdkImportable |-> TRUE, acceptsHost |-> TRUE,
              methods |-> "snake"]
    /\ pc = [i \in Invocations |-> "idle"]
    /\ tool = [i \in Invocations |-> "none"]
    /\ args = [i \in Invocations |-> NoArgs]
    /\ reqs = [i \in Invocations |-> <<>>]
    /\ indexCalls = [i \in Invocations |-> 0]
    /\ out = [i \in Invocations |-> NoOut]

\* research_company_with_tavily up to its first await (lines 73-100)
CallTavily(i, cn, url) ==
    /\ pc[i] = "idle"
    /\ tool' = [tool EXCEPT ![i] = "tavily"]
    /\ args' = [args EXCEPT ![i] = [NoArgs EXCEPT !.company_name = cn, !.website_url = url]]
    /\ IF ~env.tavilyKey
       THEN /\ out' = [out EXCEPT ![i] = Raised("ValueError")]
            /\ pc' = [pc EXCEPT ![i] = "done"]
            /\ UNCHANGED reqs
       ELSE /\ reqs' = [reqs EXCEPT ![i] = Append(@, TavilyRequest(cn, url))]
            /\ pc' = [pc EXCEPT ![i] = "waiting"]
            /\ UNCHANGED out
    /\ UNCHANGED <<env, indexCalls, keyVars, normVars>>

\* the HTTP exchange ends: status, transport error or undecodable body
TavilyRespond(i, status) ==
    /\ pc[i] = "waiting" /\ tool[i] = "tavily"
    /\ out' = [out EXCEPT ![i] = TavilyFinish(status)]
    /\ pc' = [pc EXCEPT ![i] = "done"]
    /\ UNCHANGED <<env, tool, args, reqs, indexCalls, keyVars, normVars>>

\* httpx.AsyncClient(timeout=30) gives up
TavilyTimeout(i) ==
    /\ pc[i] = "waiting" /\ tool[i] = "tavily"
    /\ out' = [out EXCEPT ![i] = Raised("TimeoutException")]
    /\ pc' = [pc EXCEPT ![i] = "done"]
    /\ UNCHANGED <<env, tool, args, reqs, indexCalls, keyVars, normVars>>

\* pinecone_search up to "await asyncio.to_thread" (lines 127-184)
CallPinecone(i, uid, q) ==
    /\ pc[i] = "idle"
    /\ tool' = [tool EXCEPT ![i] = "pinecone"]
    /\ args' = [args EXCEPT ![i] = [NoArgs EXCEPT !.UserId = uid, !.query = q]]
    /\ IF PineconeValidate(env, uid, q) # ""
       THEN /\ out' = [out EXCEPT ![i] = Raised(PineconeValidate(env, uid, q))]
            /\ pc' = [pc EXCEPT ![i] = "done"]
       ELSE /\ pc' = [pc EXCEPT ![i] = "thread"]
            /\ UNCHANGED out
    /\ UNCHANGED <<env, reqs, indexCalls, keyVars, normVars>>

\* _search_sync on its worker thread up to the search call (lines 149-179)
ThreadSearch(i) ==
    /\ pc[i] = "thread"
    /\ indexCalls' = [indexCalls EXCEPT ![i] = IndexConstructions(env)]
    /\ LET ms == SearchMethods(env.methods)
       IN  IF ms = <<>>
           THEN /\ out' = [out EXCEPT ![i] = PineconeFailed("RuntimeError")]
                /\ pc' = [pc EXCEPT ![i] = "done"]
                /\ UNCHANGED reqs
           ELSE /\ reqs' = [reqs EXCEPT ![i] =
                     @ \o [k \in 1..Len(ms) |->
                             PineconeRequest(args[i].UserId, args[i].query, ms[k])]]
                /\ pc' = [pc EXCEPT ![i] = "waiting"]
                /\ UNCHANGED out
    /\ UNCHANGED <<env, tool, args, keyVars, normVars>>

\* the search call returns r, the coroutine resumes (lines 181-215)
PineconeRespond(i) ==
    /\ pc[i] = "waiting" /\ tool[i] = "pinecone"
    /\ \E r \in BackendResponses(reqs[i][Len(reqs[i])].ns) :
          out' = [out EXCEPT ![i] = PineconeReturn(r)]
    /\ pc' = [pc EXCEPT ![i] = "done"]
    /\ UNCHANGED <<env, tool, args, reqs, indexCalls, keyVars, normVars>>

\* the search call raises, the coroutine resumes in the except (lines 185-191)
PineconeFail(i) ==
    /\ pc[i] = "waiting" /\ tool[i] = "pinecone"
    /\ out' = [out EXCEPT ![i] = PineconeFailed("PineconeApiException")]
    /\ pc' = [pc EXCEPT ![i] = "done"]
    /\ UNCHANGED <<env, tool, args, reqs, indexCalls, keyVars, normVars>>


\* Pinecone(...), pc.Index(...) or index.namespace(...) raises before any
\* search is issued; the coroutine resumes in the except (lines 150-159, 185-191)
ThreadSetupFail(i) ==
    /\ pc[i] = "thread"
    /\ indexCalls' = [indexCalls EXCEPT ![i] = IndexConstructions(env)]
    /\ out' = [out EXCEPT ![i] = PineconeFailed("PineconeException")]
    /\ pc' = [pc EXCEPT ![i] = "done"]
    /\ UNCHANGED <<env, tool, args, reqs, keyVars, normVars>>

\* ------------------------------------------------ credential helper
KeyInit ==
    /\ headers \in {HeaderDict(lo, mx, au) :
                      lo \in KeyValues, mx \in KeyValues, au \in AuthValues}
    /\ apiKey = None
    /\ kpc = "start"

KeyIdle ==
    /\ headers = HeaderDict(None, None, None)
    /\ apiKey = None
    /\ kpc = "start"

\* a tool calls _extract_api_key() on the current request's headers
ExtractApiKeyCall ==
    /\ kpc = "start"
    /\ apiKey' = ExtractApiKey(headers)
    /\ kpc' = "done"
    /\ UNCHANGED <<headers, normVars, toolVars>>

\* ------------------------------------------------ normalization alone
NormInit ==
    /\ nresp \in Responses(<<"u">>, MaxHits)
    /\ nout = NoOut
    /\ npc = "start"

NormIdle ==
    /\ nresp = NoResp
    /\ nout = NoOut
    /\ npc = "start"

\* pinecone_search from the return of to_thread to its own return
NormalizeAndReturn ==
    /\ npc = "start"
    /\ nout' = PineconeReturn(nresp)
    /\ npc' = "done"
    /\ UNCHANGED <<nresp, keyVars, toolVars>>

\* ------------------------------------------------ specifications
Init == ToolInit /\ KeyIdle /\ NormIdle

Next ==
    \E i \in Invocations :
        \/ \E cn \in CompanyNames, url \in WebsiteUrls : CallTavily(i, cn, url)
        \/ \E st \in TavilyOutcomes : TavilyRespond(i, st)
        \/ TavilyTimeout(i)
        \/ \E uid \in UserIds, q \in Queries : CallPinecone(i, uid, q)
        \/ ThreadSearch(i)
        \/ ThreadSetupFail(i)
        \/ PineconeRespond(i)
        \/ PineconeFail(i)

Spec == Init /\ [][Next]_vars

\* The event loop runs every coroutine that can run, the worker thread
\* runs, and the httpx timer fires; nothing makes a backend answer.
Fairness ==
    \A i \in Invocations :
        /\ WF_vars(TavilyTimeout(i))
        /\ WF_vars(ThreadSearch(i))

FairSpec == Spec /\ Fairness

InitKey == KeyInit /\ NormIdle /\ ToolIdle

NextKey == ExtractApiKeyCall

SpecKey == InitKey /\ [][NextKey]_vars

InitNorm == NormInit /\ KeyIdle /\ ToolIdle

NextNorm == NormalizeAndReturn

SpecNorm == InitNorm /\ [][NextNorm]_vars


\* ================================================================ claims
Done(i) == pc[i] = "done"

\* the error kind of a {kind, message} error, "" when there is none
ErrorKind(o) == IF o.errorForm = "kind_message" THEN o.error ELSE ""

\* C1: every tool invocation ends by returning a result object; no failure
\* leaves the tool as an exception.
C1_NeverThrows ==
    \A i \in Invocations : Done(i) => out[i].how = "returned"

\* C2: every returned value has the NormalizedResult shape: it has success,
\* success is false exactly when a {kind, message} error is present, and a
\* successful result has matches.
C2_ResultShape ==
    \A i \in Invocations :
        (Done(i) /\ out[i].how = "returned") =>
            /\ "success" \in out[i].keys
            /\ (~out[i].success) <=> (out[i].errorForm = "kind_message")
            /\ out[i].success => "matches" \in out[i].keys

RequiredMissing(i) ==
    \/ /\ tool[i] = "pinecone"
       /\ \/ IsBlank(args[i].UserId) \/ IsBlank(args[i].query)
          \/ ~env.pineconeKey \/ ~env.indexName
    \/ /\ tool[i] = "tavily"
       /\ \/ IsBlank(args[i].company_name) \/ IsBlank(args[i].website_url)
          \/ ~env.tavilyKey

\* C3: an invocation with a blank required argument or missing required
\* configuration makes no backend call and ends with a result of error kind
\* "validation".
C3_ValidationFirst ==
    \A i \in Invocations :
        RequiredMissing(i) =>
            /\ reqs[i] = <<>>
            /\ Done(i) => /\ out[i].how = "returned"
                          /\ ~out[i].success
                          /\ ErrorKind(out[i]) = "validation"

\* C4: an invocation waiting on a backend always finishes, and a timeout is
\* reported as a failed result, not raised.
C4_BoundedWait ==
    \A i \in Invocations :
        (pc[i] = "waiting") ~> (Done(i) /\ out[i].exc # "TimeoutException")

DedicatedValues(hd) == {hd.lower, hd.mixed} \ {None}

\* C5 as stated: whenever the dedicated API-key header is present, with any
\* value, the result is that header's value trimmed.
C5_PrecedenceAnyValue ==
    (kpc = "done" /\ DedicatedValues(headers) # {}) =>
        apiKey \in {Strip(v) : v \in DedicatedValues(headers)}

\* C5 amended: whenever the dedicated API-key header has a non-empty value
\* (the lower-case spelling looked at first), the result is that value
\* trimmed, whatever the authorization header holds.
C5_PrecedenceNonEmpty ==
    kpc = "done" =>
        /\ (headers.lower \notin {None, <<>>}) => apiKey = Strip(headers.lower)
        /\ (headers.lower \in {None, <<>>} /\ headers.mixed \notin {None, <<>>})
              => apiKey = Strip(headers.mixed)

C5_Witness ==
    /\ kpc = "done"
    /\ headers.lower = <<" ", "k">>
    /\ headers.authorization = BearerPrefix \o <<"t">>
    /\ apiKey = <<"k">>

\* a response without a usable hit list, or whose hits all lack a fields
\* mapping
Degenerate(r) ==
    \/ r.outer = "None"
    \/ r.inner \in {"absent", "None"}
    \/ r.hitsKind # "list"
    \/ \A k \in 1..Len(r.hits) : r.hits[k].fields \in {"absent", "notmap"}

\* C6: normalization never raises: the invocation returns a success result
\* for every response, with matches = [] for None, an empty mapping, a
\* response without hit list and hits without a fields mapping.
C6_NormalizeTotal ==
    npc = "done" =>
        /\ nout.how = "returned"
        /\ nout.success
        /\ "matches" \in nout.keys
        /\ Degenerate(nresp) => nout.matches = <<>>

C6_Witness ==
    /\ npc = "done"
    /\ nresp.outer = "obj" /\ nresp.inner = "obj" /\ nresp.hitsKind = "list"
    /\ Len(nresp.hits) = 2
    /\ nresp.hits[1].fields = "notmap"
    /\ nresp.hits[2].fields = "absent"
    /\ nout.how = "returned" /\ nout.success /\ nout.matches = <<>>

\* the hit list sits at result.hits in one of the two shapes the SDKs give
\* and every hit's fields, when present, is a mapping
WellFormed(r) ==
    /\ r.outer \in {"dict", "obj"}
    /\ r.inner = r.outer
    /\ r.hitsKind = "list"
    /\ \A k \in 1..Len(r.hits) : r.hits[k].fields # "notmap"

HasStringText(h) == h.fields = "map" /\ h.text \in Texts

StringTexts(hs) ==
    LET sel == SelectSeq(hs, HasStringText)
    IN  [k \in 1..Len(sel) |-> sel[k].text]

\* C7: for a well-formed hit list, matches is the sequence of the hits'
\* string texts in the backend's order.
C7_MatchesInOrder ==
    (npc = "done" /\ WellFormed(nresp)) =>
        /\ nout.success
        /\ nout.matches = StringTexts(nresp.hits)

C7_Witness ==
    /\ npc = "done"
    /\ WellFormed(nresp)
    /\ Len(nresp.hits) = 2
    /\ nresp.hits[1].text = "b"
    /\ nresp.hits[2].text = "a"
    /\ nout.matches = <<"b", "a">>

\* C8: no field outside the allow-list is in anything returned to the
\* caller.
C8_OnlyAllowListed ==
    npc = "done" =>
        \A k \in 1..Len(nout.raw.hits) : FieldNames(nout.raw.hits[k]) \subseteq AllowedFields

\* C9: every vector query of an invocation is issued in the namespace equal
\* to its trimmed UserId, never in the namespace of another invocation with
\* a different identifier, and its result holds hits of that namespace only.
C9_NamespaceIsolation ==
    \A i \in Invocations :
        tool[i] = "pinecone" =>
            /\ \A k \in 1..Len(reqs[i]) :
                  /\ reqs[i][k].ns = Strip(args[i].UserId)
                  /\ \A j \in Invocations :
                        (tool[j] = "pinecone" /\ pc[j] # "idle"
                           /\ Strip(args[j].UserId) # Strip(args[i].UserId))
                        => reqs[i][k].ns # Strip(args[j].UserId)
            /\ \A k \in 1..Len(out[i].raw.hits) :
                  out[i].raw.hits[k].from = Strip(args[i].UserId)

C9_Witness ==
    /\ tool["inv1"] = "pinecone" /\ tool["inv2"] = "pinecone"
    /\ args["inv1"].UserId = <<" ", "u">>
    /\ args["inv2"].UserId = <<"u", "u">>
    /\ pc["inv1"] = "done" /\ pc["inv2"] = "waiting"
    /\ Len(out["inv1"].raw.hits) = 1
    /\ reqs["inv1"][1].ns = <<"u">>
    /\ reqs["inv2"][1].ns = <<"u", "u">>

====
